---- MODULE Spec2Model ----
(***************************************************************************)
(* Model of the marker ingestion pipeline of uug-ai/markers:               *)
(*   pkg/markers/main.go     Marker.Create                                 *)
(*   pkg/markers/mongodb.go  AddMarkerToMongodb                            *)
(* The store (MongoDB) is the shared state: the markers collection, the    *)
(* four option catalogs, the three range collections and the media         *)
(* collection.  A call is a process that walks through the store           *)
(* operations of AddMarkerToMongodb in program order; every store          *)
(* operation is one atomic step (one document written), may fail, and      *)
(* fails once the call's context deadline has passed.                      *)
(***************************************************************************)
EXTENDS Integers, Sequences, FiniteSets, TLC

(***************************************************************************)
(* Bounds of the model.                                                    *)
(***************************************************************************)
NumCalls == 2

Procs == 1..NumCalls

(***************************************************************************)
(* Values.                                                                 *)
(***************************************************************************)
NilObjectID == 0

\* Length of the hex form of an ObjectID (primitive.ObjectIDFromHex).
HexLen == 24

\* A string of hex digits is modelled as the sequence of its characters,
\* a character being its digit value 0..15, or NotHex for any other one.
NotHex == 16

HexString(last) == [i \in 1..HexLen |-> IF i = HexLen THEN last ELSE 0]

EmptyString == <<>>
MediaHex1 == HexString(1)
MediaHex2 == HexString(2)
MediaHexUnknown == HexString(3)
MediaHexBad == <<NotHex, 1>>

\* primitive.ObjectIDFromHex: 24 hex digits decode to 12 bytes, anything
\* else is an error.
ObjectIDFromHex(s) ==
    IF Len(s) # HexLen \/ \E i \in 1..Len(s) : s[i] \notin 0..15
    THEN [err |-> TRUE, id |-> <<>>]
    ELSE [err |-> FALSE,
          id |-> [b \in 1..(HexLen \div 2) |-> 16 * s[2 * b - 1] + s[2 * b]]]

Event(name, start, end) ==
    [Name |-> name, StartTimestamp |-> start, EndTimestamp |-> end]

\* models.Marker{} : the zero value.
ZeroMarker ==
    [Id |-> NilObjectID, Name |-> "", StartTimestamp |-> 0, EndTimestamp |-> 0,
     Duration |-> 0, OrganisationId |-> "", DeviceId |-> "", GroupId |-> "",
     Tags |-> <<>>, Events |-> <<>>, Categories |-> <<>>]

(***************************************************************************)
(* Pure helpers of AddMarkerToMongodb: the per-submission write batches.   *)
(***************************************************************************)
Contains(seq, x) == \E i \in 1..Len(seq) : seq[i] = x

\* Mutant: empty names are kept.
KeepEmptyNames(names) == names

RECURSIVE NonEmptyNames(_)
\* The names of a label list, empty names skipped, repeats kept.
NonEmptyNames(names) ==
    IF names = <<>> THEN <<>>
    ELSE IF Head(names) = "" THEN NonEmptyNames(Tail(names))
    ELSE <<Head(names)>> \o NonEmptyNames(Tail(names))

RECURSIVE DistinctFrom(_, _)
\* The first occurrences of the non-empty names (the per-kind xxxSet maps).
DistinctFrom(names, seen) ==
    IF names = <<>> THEN <<>>
    ELSE IF Head(names) = "" \/ Head(names) \in seen
         THEN DistinctFrom(Tail(names), seen)
    ELSE <<Head(names)>> \o DistinctFrom(Tail(names), seen \cup {Head(names)})

DistinctNames(names) == DistinctFrom(names, {})

EventNames(m) == [i \in 1..Len(m.Events) |-> m.Events[i].Name]

\* Mutant: the marker-name upsert carries no category name.
CategoryNamesListNone(m) == <<>>

\* categoryNamesList, lines 89-94.
CategoryNamesList(m) == NonEmptyNames(m.Categories)

\* One mongo.UpdateOneModel with SetUpsert(true): the filter (value,
\* organisationId), $setOnInsert, $set and, for marker options, $addToSet.
UpsertModel(name, m, now, withCategories) ==
    [value |-> name, organisationId |-> m.OrganisationId, now |-> now,
     withCategories |-> withCategories,
     categories |-> IF withCategories THEN CategoryNamesList(m) ELSE <<>>]

MarkerOptUpserts(m, now) ==
    IF m.Name # "" THEN <<UpsertModel(m.Name, m, now, TRUE)>> ELSE <<>>

PlainUpserts(names, m, now) ==
    LET d == DistinctNames(names)
    IN  [i \in 1..Len(d) |-> UpsertModel(d[i], m, now, FALSE)]

TagOptUpserts(m, now) == PlainUpserts(m.Tags, m, now)

EventOptUpserts(m, now) == PlainUpserts(EventNames(m), m, now)

CategoryOptUpserts(m, now) == PlainUpserts(m.Categories, m, now)

RangeDoc(name, start, end, m, now) ==
    [value |-> name, text |-> name, organisationId |-> m.OrganisationId,
     start |-> start, end |-> end, deviceId |-> m.DeviceId,
     groupId |-> m.GroupId, createdAt |-> now]

MarkerRangeDocs(m, now) ==
    IF m.Name # ""
    THEN <<RangeDoc(m.Name, m.StartTimestamp, m.EndTimestamp, m, now)>>
    ELSE <<>>

\* Mutant: the tag ranges are deduplicated like the tag options.
TagRangeDocsDistinct(m, now) ==
    LET n == DistinctNames(m.Tags)
    IN  [i \in 1..Len(n) |->
            RangeDoc(n[i], m.StartTimestamp, m.EndTimestamp, m, now)]

TagRangeDocs(m, now) ==
    LET n == NonEmptyNames(m.Tags)
    IN  [i \in 1..Len(n) |->
            RangeDoc(n[i], m.StartTimestamp, m.EndTimestamp, m, now)]

RECURSIVE NonEmptyEvents(_)
NonEmptyEvents(events) ==
    IF events = <<>> THEN <<>>
    ELSE IF Head(events).Name = "" THEN NonEmptyEvents(Tail(events))
    ELSE <<Head(events)>> \o NonEmptyEvents(Tail(events))

\* Mutant: the event range documents carry the range of the marker.
EventRangeDocsOfMarker(m, now) ==
    LET e == NonEmptyEvents(m.Events)
    IN  [i \in 1..Len(e) |->
            [value |-> e[i].Name, text |-> e[i].Name,
             organisationId |-> m.OrganisationId,
             start |-> m.StartTimestamp, end |-> m.EndTimestamp,
             deviceId |-> m.DeviceId, groupId |-> m.GroupId,
             createdAt |-> now, updatedAt |-> now]]

\* Event range documents carry the event's own range and an updatedAt.
EventRangeDocs(m, now) ==
    LET e == NonEmptyEvents(m.Events)
    IN  [i \in 1..Len(e) |->
            [value |-> e[i].Name, text |-> e[i].Name,
             organisationId |-> m.OrganisationId,
             start |-> e[i].StartTimestamp, end |-> e[i].EndTimestamp,
             deviceId |-> m.DeviceId, groupId |-> m.GroupId,
             createdAt |-> now, updatedAt |-> now]]

\* The $addToSet document of the media update, lines 289-319: a field is
\* present only when its name list is not empty.
MediaUpdateDoc(m) ==
    [markerNames |-> IF m.Name # "" THEN <<m.Name>> ELSE <<>>,
     tagNames |-> NonEmptyNames(m.Tags),
     eventNames |-> NonEmptyNames(EventNames(m))]

UpdateDocLen(m) ==
    LET u == MediaUpdateDoc(m)
    IN  Cardinality({f \in {"markerNames", "tagNames", "eventNames"} :
                        u[f] # <<>>})

(***************************************************************************)
(* The stages of the pipeline, in program order (lines 222-334).           *)
(***************************************************************************)
\* Mutant: the four catalogs are written first, then the three ranges.
StagesCatalogsFirst ==
    <<"marker_options", "marker_tag_options", "marker_event_options",
      "marker_category_options", "marker_option_ranges",
      "marker_tag_option_ranges", "marker_event_option_ranges", "media">>

Stages ==
    <<"marker_options", "marker_option_ranges",
      "marker_tag_options", "marker_tag_option_ranges",
      "marker_event_options", "marker_event_option_ranges",
      "marker_category_options", "media">>

OptionCollections ==
    {"marker_options", "marker_tag_options", "marker_event_options",
     "marker_category_options"}

RangeCollections ==
    {"marker_option_ranges", "marker_tag_option_ranges",
     "marker_event_option_ranges"}

MediaStage == Len(Stages)

\* The batch a stage writes: markerOptUpserts, markerRangeDocs, ...
Batch(s, m, now) ==
    CASE Stages[s] = "marker_options" -> MarkerOptUpserts(m, now)
      [] Stages[s] = "marker_option_ranges" -> MarkerRangeDocs(m, now)
      [] Stages[s] = "marker_tag_options" -> TagOptUpserts(m, now)
      [] Stages[s] = "marker_tag_option_ranges" -> TagRangeDocs(m, now)
      [] Stages[s] = "marker_event_options" -> EventOptUpserts(m, now)
      [] Stages[s] = "marker_event_option_ranges" -> EventRangeDocs(m, now)
      [] Stages[s] = "marker_category_options" -> CategoryOptUpserts(m, now)

StageError(s) ==
    CASE Stages[s] = "marker_options" -> "failed to upsert marker options"
      [] Stages[s] = "marker_option_ranges" -> "failed to insert marker ranges"
      [] Stages[s] = "marker_tag_options" -> "failed to upsert tag options"
      [] Stages[s] = "marker_tag_option_ranges" -> "failed to insert tag ranges"
      [] Stages[s] = "marker_event_options" -> "failed to upsert event options"
      [] Stages[s] = "marker_event_option_ranges" -> "failed to insert event ranges"
      [] Stages[s] = "marker_category_options" -> "failed to upsert category options"
      [] Stages[s] = "media" -> "failed to update media with marker data"

RECURSIVE ResumeSkippingBadIds(_, _, _, _, _)
\* Mutant: a media id that is not hex is skipped like an empty one.
ResumeSkippingBadIds(s, i, m, now, mediaIds) ==
    IF s < MediaStage
    THEN IF i <= Len(Batch(s, m, now))
         THEN [kind |-> "op", s |-> s, i |-> i, err |-> "nil"]
         ELSE ResumeSkippingBadIds(s + 1, 1, m, now, mediaIds)
    ELSE IF i > Len(mediaIds)
         THEN [kind |-> "ret", s |-> s, i |-> i, err |-> "nil"]
    ELSE IF mediaIds[i] = EmptyString \/ ObjectIDFromHex(mediaIds[i]).err
         THEN ResumeSkippingBadIds(s, i + 1, m, now, mediaIds)
    ELSE IF UpdateDocLen(m) > 0
         THEN [kind |-> "op", s |-> s, i |-> i, err |-> "nil"]
    ELSE ResumeSkippingBadIds(s, i + 1, m, now, mediaIds)

RECURSIVE ResumeStoppingAtEmptyId(_, _, _, _, _)
\* Mutant: an empty media id ends the media loop.
ResumeStoppingAtEmptyId(s, i, m, now, mediaIds) ==
    IF s < MediaStage
    THEN IF i <= Len(Batch(s, m, now))
         THEN [kind |-> "op", s |-> s, i |-> i, err |-> "nil"]
         ELSE ResumeStoppingAtEmptyId(s + 1, 1, m, now, mediaIds)
    ELSE IF i > Len(mediaIds) \/ mediaIds[i] = EmptyString
         THEN [kind |-> "ret", s |-> s, i |-> i, err |-> "nil"]
    ELSE IF ObjectIDFromHex(mediaIds[i]).err
         THEN [kind |-> "ret", s |-> s, i |-> i,
               err |-> "invalid mediaId format"]
    ELSE IF UpdateDocLen(m) > 0
         THEN [kind |-> "op", s |-> s, i |-> i, err |-> "nil"]
    ELSE ResumeStoppingAtEmptyId(s, i + 1, m, now, mediaIds)

RECURSIVE Resume(_, _, _, _, _)
\* Where control stops next when it resumes at item i of stage s: at the
\* next store operation ("op"), or at a return ("ret") with its error.
\* A stage whose batch is empty is skipped (the len(...) > 0 tests); in the
\* media loop an empty id is skipped, an id that is not hex returns an
\* error, and an empty update document issues no update.
Resume(s, i, m, now, mediaIds) ==
    IF s < MediaStage
    THEN IF i <= Len(Batch(s, m, now))
         THEN [kind |-> "op", s |-> s, i |-> i, err |-> "nil"]
         ELSE Resume(s + 1, 1, m, now, mediaIds)
    ELSE IF i > Len(mediaIds)
         THEN [kind |-> "ret", s |-> s, i |-> i, err |-> "nil"]
    ELSE IF mediaIds[i] = EmptyString
         THEN Resume(s, i + 1, m, now, mediaIds)
    ELSE IF ObjectIDFromHex(mediaIds[i]).err
         THEN [kind |-> "ret", s |-> s, i |-> i,
               err |-> "invalid mediaId format"]
    ELSE IF UpdateDocLen(m) > 0
         THEN [kind |-> "op", s |-> s, i |-> i, err |-> "nil"]
    ELSE Resume(s, i + 1, m, now, mediaIds)

(***************************************************************************)
(* Store operations.                                                       *)
(***************************************************************************)
RECURSIVE AddToSetEach(_, _)
\* $addToSet with $each: every value not yet in the array is appended.
AddToSetEach(arr, values) ==
    IF values = <<>> THEN arr
    ELSE AddToSetEach(IF Contains(arr, Head(values)) THEN arr
                      ELSE Append(arr, Head(values)),
                      Tail(values))

\* Mutant: the filter of the upsert leaves the organisation out.
MatchesFilterByValue(doc, up) == doc.value = up.value

MatchesFilter(doc, up) ==
    doc.value = up.value /\ doc.organisationId = up.organisationId

\* The document an upsert inserts when its filter matches none:
\* $setOnInsert, $set and (marker options) $addToSet on a new document.
UpsertedDoc(up) ==
    IF up.withCategories
    THEN [value |-> up.value, text |-> up.value,
          organisationId |-> up.organisationId, createdAt |-> up.now,
          updatedAt |-> up.now,
          categories |-> AddToSetEach(<<>>, up.categories)]
    ELSE [value |-> up.value, text |-> up.value,
          organisationId |-> up.organisationId, createdAt |-> up.now,
          updatedAt |-> up.now]

\* Mutant: a matched document gets a new createdAt as well.
UpdatedDocRecreated(doc, up) ==
    IF up.withCategories
    THEN [doc EXCEPT !.updatedAt = up.now, !.createdAt = up.now,
                     !.categories = AddToSetEach(@, up.categories)]
    ELSE [doc EXCEPT !.updatedAt = up.now, !.createdAt = up.now]

\* Mutant: the category names are set, not added to the set.
UpdatedDocOverwrites(doc, up) ==
    IF up.withCategories
    THEN [doc EXCEPT !.updatedAt = up.now, !.categories = up.categories]
    ELSE [doc EXCEPT !.updatedAt = up.now]

\* What an upsert does to the document it matched: $set and $addToSet.
UpdatedDoc(doc, up) ==
    IF up.withCategories
    THEN [doc EXCEPT !.updatedAt = up.now,
                     !.categories = AddToSetEach(@, up.categories)]
    ELSE [doc EXCEPT !.updatedAt = up.now]

\* Mutant: an upsert that inserts without looking for a match.
ApplyUpsertAlwaysInserts(coll, up) == Append(coll, UpsertedDoc(up))

\* UpdateOne with upsert: the first document matching the filter is
\* updated; a new one is inserted when there is none.
ApplyUpsert(coll, up) ==
    IF \E k \in 1..Len(coll) : MatchesFilter(coll[k], up)
    THEN LET k == CHOOSE j \in 1..Len(coll) :
                    /\ MatchesFilter(coll[j], up)
                    /\ \A h \in 1..(j - 1) : ~MatchesFilter(coll[h], up)
         IN  [coll EXCEPT ![k] = UpdatedDoc(@, up)]
    ELSE Append(coll, UpsertedDoc(up))

\* Mutant: the media document is matched by its id alone.
MediaFilterById(doc, id, m) == doc.id = id

\* The filter of the media update, lines 323-327.
MediaFilter(doc, id, m) ==
    /\ doc.id = id
    /\ doc.startTimestamp <= m.StartTimestamp
    /\ doc.endTimestamp >= m.StartTimestamp

\* Mutant: the media update is an upsert, creating the document it misses.
ApplyMediaUpdateUpserts(coll, id, m) ==
    LET u == MediaUpdateDoc(m)
    IN  IF \E k \in 1..Len(coll) : MediaFilter(coll[k], id, m)
        THEN LET k == CHOOSE j \in 1..Len(coll) :
                         /\ MediaFilter(coll[j], id, m)
                         /\ \A h \in 1..(j - 1) : ~MediaFilter(coll[h], id, m)
             IN  [coll EXCEPT ![k] =
                    [@ EXCEPT !.markerNames = AddToSetEach(@, u.markerNames),
                              !.tagNames = AddToSetEach(@, u.tagNames),
                              !.eventNames = AddToSetEach(@, u.eventNames)]]
        ELSE Append(coll, [id |-> id, startTimestamp |-> m.StartTimestamp,
                           endTimestamp |-> m.StartTimestamp,
                           markerNames |-> u.markerNames,
                           tagNames |-> u.tagNames,
                           eventNames |-> u.eventNames])

\* The media update, lines 328-329: $addToSet of the update document on
\* the first document the filter matches; none matching changes nothing.
ApplyMediaUpdate(coll, id, m) ==
    IF \E k \in 1..Len(coll) : MediaFilter(coll[k], id, m)
    THEN LET k == CHOOSE j \in 1..Len(coll) :
                    /\ MediaFilter(coll[j], id, m)
                    /\ \A h \in 1..(j - 1) : ~MediaFilter(coll[h], id, m)
             u == MediaUpdateDoc(m)
         IN  [coll EXCEPT ![k] =
                [@ EXCEPT !.markerNames = AddToSetEach(@, u.markerNames),
                          !.tagNames = AddToSetEach(@, u.tagNames),
                          !.eventNames = AddToSetEach(@, u.eventNames)]]
    ELSE coll

(***************************************************************************)
(* Inputs of the calls.                                                    *)
(***************************************************************************)
Names == {"", "a"}

Organisations == {"A", "B"}

\* <<StartTimestamp, EndTimestamp>>: one inside and one before the range
\* of the first media document, one with end < start.
TimeRanges == {<<3, 5>>, <<1, 2>>, <<3, 2>>}

TagLists == {<<>>, <<"t", "t">>, <<"", "u", "t">>}

EventLists ==
    {<<>>,
     <<Event("e", 6, 8), Event("", 0, 0), Event("e", 7, 9)>>}

CategoryLists == {<<>>, <<"c">>, <<"d", "", "c", "d">>}

MediaIdLists ==
    {<<>>,
     <<EmptyString, EmptyString>>,
     <<MediaHex1>>,
     <<EmptyString, MediaHexUnknown, MediaHex2, MediaHex1>>,
     <<MediaHex1, MediaHexBad, MediaHex2>>}

InputDurations == {0}

\* The labels of a submission: its tags, events and categories.
Labels(tags, events, categories) ==
    [Tags |-> tags, Events |-> events, Categories |-> categories]

\* A submission whose tags, events and categories all have empty names.
EmptyLabels == Labels(<<"">>, <<Event("", 6, 8)>>, <<"", "">>)

AllLabels ==
    {Labels(tg, ev, ct) :
        tg \in TagLists, ev \in EventLists, ct \in CategoryLists}
        \cup {EmptyLabels}

\* The markers a caller submits; the Id it supplies is nil or the identity
\* of a marker persisted before.
MarkerInputs(ids, names, organisations, timeRanges, labels) ==
    { [Id |-> id, Name |-> n, StartTimestamp |-> t[1], EndTimestamp |-> t[2],
       Duration |-> d, OrganisationId |-> o, DeviceId |-> "dev",
       GroupId |-> "grp", Tags |-> l.Tags, Events |-> l.Events,
       Categories |-> l.Categories] :
      id \in ids, n \in names, t \in timeRanges, d \in InputDurations,
      o \in organisations, l \in labels }

MediaDoc(hex, start, end, markerNames) ==
    [id |-> ObjectIDFromHex(hex).id, startTimestamp |-> start,
     endTimestamp |-> end, markerNames |-> markerNames, tagNames |-> <<>>,
     eventNames |-> <<>>]

\* The media collection is owned by another service; it holds two
\* documents, the first already carrying the marker name "a".
InitialMedia ==
    <<MediaDoc(MediaHex1, 2, 4, <<"a">>), MediaDoc(MediaHex2, 6, 9, <<>>)>>

(***************************************************************************)
(* State.                                                                  *)
(***************************************************************************)
VARIABLES
    markers,     \* the markers collection, in insertion order
    options,     \* the four option catalogs
    ranges,      \* the three range collections
    media,       \* the media collection
    oidCounter,  \* the counter of primitive.NewObjectID
    clock,       \* time.Now().Unix()
    pc,          \* per call: "idle", "insert", "write" or "done"
    call,        \* per call: the entry point and its arguments
    loc,         \* per call: the locals of AddMarkerToMongodb
    ret,         \* per call: the returned (marker, error)
    added,       \* per call: what AddMarkerToMongodb returned
    expired,     \* per call: the deadline of ctx has passed
    trace        \* per call: the store operations issued so far

vars ==
    <<markers, options, ranges, media, oidCounter, clock, pc, call, loc, ret,
      added, expired, trace>>

store == <<markers, options, ranges, media>>

NoCall == [entry |-> "none", marker |-> ZeroMarker, mediaIds |-> <<>>]

NoLocals ==
    [marker |-> ZeroMarker, mediaIds |-> <<>>, now |-> 0, s |-> 1, i |-> 1]

NoReturn == [marker |-> ZeroMarker, err |-> "none", cause |-> "none"]

Init ==
    /\ markers = <<>>
    /\ options = [c \in OptionCollections |-> <<>>]
    /\ ranges = [c \in RangeCollections |-> <<>>]
    /\ media = InitialMedia
    /\ oidCounter = 0
    /\ clock = 1
    /\ pc = [p \in Procs |-> "idle"]
    /\ call = [p \in Procs |-> NoCall]
    /\ loc = [p \in Procs |-> NoLocals]
    /\ ret = [p \in Procs |-> NoReturn]
    /\ added = [p \in Procs |-> NoReturn]
    /\ expired = [p \in Procs |-> FALSE]
    /\ trace = [p \in Procs |-> <<>>]

(***************************************************************************)
(* Marker.Create (main.go).                                                *)
(***************************************************************************)
\* Mutant: the name is not checked.
NameNeverMissing(marker) == FALSE

\* Lines 22-25: the name is required.
NameIsMissing(marker) == marker.Name = ""

\* Mutant: the duration is left as submitted.
WithoutDuration(marker) == marker

\* Line 28: the duration is the difference of end and start.
WithDuration(marker) ==
    [marker EXCEPT !.Duration = marker.EndTimestamp - marker.StartTimestamp]

\* Line 31: Create calls AddMarkerToMongodb without any media id, whatever
\* media ids its caller wants linked.
MediaIdsPassedByCreate(mediaIds) == <<>>

\* Mutant: Create hands on what AddMarkerToMongodb returned.
CreateReturnsInserted(r) == r

\* Lines 32-36: on an error Create returns the zero marker, not the marker
\* AddMarkerToMongodb reported.
CreateReturn(r) ==
    IF r.err # "nil"
    THEN [marker |-> ZeroMarker, err |-> r.err, cause |-> r.cause]
    ELSE r

\* AddMarkerToMongodb returns r to its caller, which is Create or the
\* program that called it directly.
Return(p, r) ==
    /\ pc' = [pc EXCEPT ![p] = "done"]
    /\ added' = [added EXCEPT ![p] = r]
    /\ ret' = [ret EXCEPT ![p] =
                 IF call[p].entry = "Create" THEN CreateReturn(r) ELSE r]

Create(p, marker, mediaIds) ==
    /\ pc[p] = "idle"
    /\ call' = [call EXCEPT ![p] =
                  [entry |-> "Create", marker |-> marker,
                   mediaIds |-> mediaIds]]
    /\ IF NameIsMissing(marker)
       THEN /\ pc' = [pc EXCEPT ![p] = "done"]
            /\ ret' = [ret EXCEPT ![p] =
                         [marker |-> ZeroMarker,
                          err |-> "marker name is required",
                          cause |-> "none"]]
            /\ UNCHANGED loc
       ELSE /\ pc' = [pc EXCEPT ![p] = "insert"]
            /\ loc' = [loc EXCEPT ![p] =
                         [NoLocals EXCEPT
                            !.marker = WithDuration(marker),
                            !.mediaIds = MediaIdsPassedByCreate(mediaIds)]]
            /\ UNCHANGED ret
    /\ UNCHANGED <<store, oidCounter, clock, added, expired, trace>>

(***************************************************************************)
(* AddMarkerToMongodb (mongodb.go).                                        *)
(***************************************************************************)
\* Mutant: the exported function checks the name as Create does.
AddMarkerToMongodbChecksName(p, marker, mediaIds) ==
    /\ pc[p] = "idle"
    /\ call' = [call EXCEPT ![p] =
                  [entry |-> "AddMarkerToMongodb", marker |-> marker,
                   mediaIds |-> mediaIds]]
    /\ IF NameIsMissing(marker)
       THEN /\ Return(p, [marker |-> ZeroMarker,
                          err |-> "marker name is required",
                          cause |-> "none"])
            /\ UNCHANGED loc
       ELSE /\ pc' = [pc EXCEPT ![p] = "insert"]
            /\ loc' = [loc EXCEPT ![p] =
                         [NoLocals EXCEPT !.marker = marker,
                                          !.mediaIds = mediaIds]]
            /\ UNCHANGED <<ret, added>>
    /\ UNCHANGED <<store, oidCounter, clock, expired, trace>>

\* The exported function called directly, with its media ids.
AddMarkerToMongodb(p, marker, mediaIds) ==
    /\ pc[p] = "idle"
    /\ call' = [call EXCEPT ![p] =
                  [entry |-> "AddMarkerToMongodb", marker |-> marker,
                   mediaIds |-> mediaIds]]
    /\ pc' = [pc EXCEPT ![p] = "insert"]
    /\ loc' = [loc EXCEPT ![p] =
                 [NoLocals EXCEPT !.marker = marker, !.mediaIds = mediaIds]]
    /\ UNCHANGED <<store, oidCounter, clock, ret, added, expired, trace>>

\* primitive.NewObjectID: an identity never generated before.
NewObjectID(counter) == counter + 1

\* Mutant: the identity the caller supplied is kept.
KeepCallerId(marker, id) == marker

\* Lines 45 and 61: the marker carries the generated identity.
AssignId(marker, id) == [marker EXCEPT !.Id = id]

Traced(p, coll, ok) ==
    trace' = [trace EXCEPT ![p] = Append(@, [coll |-> coll, ok |-> ok])]

\* The error a failing store operation reports.
Cause(p) == IF expired[p] THEN "context deadline exceeded" ELSE "write error"

\* After a store operation: stop at the next one, or return.
Proceed(p, m, now, next) ==
    /\ loc' = [loc EXCEPT ![p] =
                 [@ EXCEPT !.marker = m, !.now = now, !.s = next.s,
                           !.i = next.i]]
    /\ IF next.kind = "op"
       THEN /\ pc' = [pc EXCEPT ![p] = "write"]
            /\ UNCHANGED <<ret, added>>
       ELSE Return(p, [marker |-> m, err |-> next.err, cause |-> "none"])

\* Lines 45-83: the marker document is inserted under a new identity, then
\* the batches are built with one reading of the clock (a call reads a
\* later time than the calls that read it before).
InsertOne(p) ==
    /\ pc[p] = "insert"
    /\ ~expired[p]
    /\ LET id == NewObjectID(oidCounter)
           m == AssignId(loc[p].marker, id)
           now == clock + 1
       IN  /\ markers' = Append(markers, m)
           /\ oidCounter' = id
           /\ clock' = now
           /\ Proceed(p, m, now, Resume(1, 1, m, now, loc[p].mediaIds))
    /\ Traced(p, "markers", TRUE)
    /\ UNCHANGED <<options, ranges, media, call, expired>>

\* Mutant: the error of the insert is ignored and the pipeline goes on.
InsertOneFailsAndGoesOn(p) ==
    /\ pc[p] = "insert"
    /\ oidCounter' = NewObjectID(oidCounter)
    /\ clock' = clock + 1
    /\ Proceed(p, loc[p].marker, clock + 1,
               Resume(1, 1, loc[p].marker, clock + 1, loc[p].mediaIds))
    /\ Traced(p, "markers", FALSE)
    /\ UNCHANGED <<store, call, expired>>

\* Lines 47-50: the insert fails and the zero marker is returned.
InsertOneFails(p) ==
    /\ pc[p] = "insert"
    /\ oidCounter' = NewObjectID(oidCounter)
    /\ Return(p, [marker |-> ZeroMarker, err |-> "insert failed",
                  cause |-> Cause(p)])
    /\ Traced(p, "markers", FALSE)
    /\ UNCHANGED <<store, clock, call, loc, expired>>

\* Mutant: a store operation goes through after the deadline.
AtStageIgnoringDeadline(p, colls) ==
    /\ pc[p] = "write"
    /\ Stages[loc[p].s] \in colls

AtStage(p, colls) ==
    /\ pc[p] = "write"
    /\ ~expired[p]
    /\ Stages[loc[p].s] \in colls

Item(p) == Batch(loc[p].s, loc[p].marker, loc[p].now)[loc[p].i]

\* Mutant: after a store operation the call goes straight to media linking.
ContinueToMedia(p) ==
    Proceed(p, loc[p].marker, loc[p].now,
            Resume(MediaStage, 1, loc[p].marker, loc[p].now,
                   loc[p].mediaIds))

Continue(p) ==
    Proceed(p, loc[p].marker, loc[p].now,
            Resume(loc[p].s, loc[p].i + 1, loc[p].marker, loc[p].now,
                   loc[p].mediaIds))

\* BulkWrite of a catalog's upserts (lines 223-228, 239-244, 255-260,
\* 271-276), one upsert at a time.
BulkWrite(p) ==
    /\ AtStage(p, OptionCollections)
    /\ options' = [options EXCEPT ![Stages[loc[p].s]] =
                     ApplyUpsert(@, Item(p))]
    /\ Continue(p)
    /\ Traced(p, Stages[loc[p].s], TRUE)
    /\ UNCHANGED <<markers, ranges, media, oidCounter, clock, call, expired>>

\* InsertMany of a kind's range documents (lines 231-236, 247-252,
\* 263-268), one document at a time.
InsertMany(p) ==
    /\ AtStage(p, RangeCollections)
    /\ ranges' = [ranges EXCEPT ![Stages[loc[p].s]] = Append(@, Item(p))]
    /\ Continue(p)
    /\ Traced(p, Stages[loc[p].s], TRUE)
    /\ UNCHANGED <<markers, options, media, oidCounter, clock, call, expired>>

\* UpdateOne of the media document of the current media id (lines 321-329).
UpdateOne(p) ==
    /\ AtStage(p, {"media"})
    /\ media' = ApplyMediaUpdate(
                    media, ObjectIDFromHex(loc[p].mediaIds[loc[p].i]).id,
                    loc[p].marker)
    /\ Continue(p)
    /\ Traced(p, "media", TRUE)
    /\ UNCHANGED <<markers, options, ranges, oidCounter, clock, call, expired>>

\* Mutant: a failing stage is compensated by removing the marker document.
StageFailsAndRollsBack(p) ==
    /\ pc[p] = "write"
    /\ Return(p, [marker |-> loc[p].marker, err |-> StageError(loc[p].s),
                  cause |-> Cause(p)])
    /\ Traced(p, Stages[loc[p].s], FALSE)
    /\ markers' = SelectSeq(markers, LAMBDA d : d.Id # loc[p].marker.Id)
    /\ UNCHANGED <<options, ranges, media, oidCounter, clock, call, loc,
                   expired>>

\* Mutant: a failing store operation is logged and tried again.
StageFailsAndRetries(p) ==
    /\ pc[p] = "write"
    /\ Traced(p, Stages[loc[p].s], FALSE)
    /\ UNCHANGED <<store, oidCounter, clock, pc, call, loc, ret, added,
                   expired>>

\* A store operation after the marker insert fails: the call returns the
\* marker and the error of the stage, and writes nothing more.
StageFails(p) ==
    /\ pc[p] = "write"
    /\ Return(p, [marker |-> loc[p].marker, err |-> StageError(loc[p].s),
                  cause |-> Cause(p)])
    /\ Traced(p, Stages[loc[p].s], FALSE)
    /\ UNCHANGED <<store, oidCounter, clock, call, loc, expired>>

\* The deadline of context.WithTimeout (line 37) passes during the call.
Deadline(p) ==
    /\ pc[p] \in {"insert", "write"}
    /\ ~expired[p]
    /\ expired' = [expired EXCEPT ![p] = TRUE]
    /\ UNCHANGED <<store, oidCounter, clock, pc, call, loc, ret, added, trace>>

(***************************************************************************)
(* Specifications.                                                         *)
(***************************************************************************)
\* The identities a caller can put in the marker it submits.
KnownIds == {NilObjectID} \cup {markers[k].Id : k \in 1..Len(markers)}

\* No call is in progress.
Quiescent == \A q \in Procs : pc[q] \in {"idle", "done"}

\* Calls are numbered in the order they start.
InOrder(p) == \A q \in Procs : q < p => pc[q] # "idle"

Step(p) ==
    \/ InsertOne(p)
    \/ InsertOneFails(p)
    \/ BulkWrite(p)
    \/ InsertMany(p)
    \/ UpdateOne(p)
    \/ StageFails(p)

\* A caller starts call p, through Create or AddMarkerToMongodb.
Start(p, inputs, mediaIdLists) ==
    /\ pc[p] = "idle"
    /\ \E marker \in inputs, mediaIds \in mediaIdLists :
        \/ Create(p, marker, mediaIds)
        \/ AddMarkerToMongodb(p, marker, mediaIds)

\* One call, over all the inputs, under a deadline.
Next ==
    \/ Start(1, MarkerInputs(KnownIds, Names, Organisations, TimeRanges,
                             AllLabels), MediaIdLists)
    \/ Step(1)
    \/ Deadline(1)

Spec == Init /\ [][Next]_vars

\* The call runs on: a store operation that is pending returns, with a
\* result or an error, at the latest when the deadline of line 37 passes.
SpecLive == Init /\ [][Next]_vars /\ \A p \in Procs : WF_vars(Step(p))

\* The inputs of the specifications of several calls.
FewLabels ==
    {Labels(<<"t", "t">>, <<>>, <<"c">>),
     Labels(<<"", "u", "t">>, <<Event("e", 6, 8), Event("e", 7, 9)>>,
            <<"d", "", "c", "d">>)}

FewMediaIdLists == {<<>>, <<MediaHexUnknown, MediaHex1>>}

FewInputs ==
    MarkerInputs(KnownIds, Names, Organisations, {<<3, 2>>}, FewLabels)

\* Calls made one after the other.
NextSeq ==
    \E p \in Procs :
        \/ Quiescent /\ InOrder(p) /\ Start(p, FewInputs, FewMediaIdLists)
        \/ Step(p)

SpecSeq == Init /\ [][NextSeq]_vars

ConcLabels ==
    {Labels(<<"t">>, <<>>, <<"c">>),
     Labels(<<"t", "t">>, <<Event("e", 6, 8)>>, <<"d", "c">>)}

ConcInputs == MarkerInputs(KnownIds, {"a"}, {"A"}, {<<3, 2>>}, ConcLabels)

\* Calls of one organisation made concurrently, their store operations
\* interleaved: Create, or AddMarkerToMongodb with a media id.
NextConc ==
    \E p \in Procs :
        \/ /\ InOrder(p)
           /\ pc[p] = "idle"
           /\ \E marker \in ConcInputs :
                \/ Create(p, marker, <<>>)
                \/ AddMarkerToMongodb(p, marker, <<MediaHex1>>)
        \/ Step(p)

SpecConc == Init /\ [][NextConc]_vars

(***************************************************************************)
(* Properties.                                                             *)
(***************************************************************************)
Done(p) == pc[p] = "done"

ViaCreate(p) == call[p].entry = "Create"

\* The call's marker insert succeeded.
Persisted(p) == trace[p] # <<>> /\ trace[p][1].ok

Failed(p) == Done(p) /\ ret[p].err # "nil"

Succeeded(p) == Done(p) /\ ret[p].err = "nil"

\* The number of operations of the call on a collection that succeeded.
OkCount(p, coll) ==
    Cardinality({k \in 1..Len(trace[p]) :
                    trace[p][k].coll = coll /\ trace[p][k].ok})

StoreIsInitial ==
    /\ markers = <<>>
    /\ \A c \in OptionCollections : options[c] = <<>>
    /\ \A c \in RangeCollections : ranges[c] = <<>>
    /\ media = InitialMedia

\* C1: Create of a marker whose name is empty returns an error and writes
\* nothing: no store operation is issued and the store is as it was before
\* the call.
C1_EmptyNameRejected ==
    \A p \in Procs :
        (ViaCreate(p) /\ call[p].marker.Name = "") =>
            /\ Done(p)
            /\ ret[p].err = "marker name is required"
            /\ ret[p].marker = ZeroMarker
            /\ trace[p] = <<>>
            /\ StoreIsInitial

C1_Witness ==
    \E p \in Procs :
        /\ ViaCreate(p)
        /\ call[p].marker.Name = ""
        /\ call[p].marker.Tags # <<>>
        /\ Done(p)

RECURSIVE ApplyUpserts(_, _)
ApplyUpserts(coll, ups) ==
    IF ups = <<>> THEN coll
    ELSE ApplyUpserts(ApplyUpsert(coll, Head(ups)), Tail(ups))

RECURSIVE ApplyMediaUpdates(_, _, _)
\* The media updates of the non-empty media ids of a list.
ApplyMediaUpdates(coll, ids, m) ==
    IF ids = <<>> THEN coll
    ELSE ApplyMediaUpdates(
            IF Head(ids) = EmptyString \/ UpdateDocLen(m) = 0 THEN coll
            ELSE ApplyMediaUpdate(coll, ObjectIDFromHex(Head(ids)).id, m),
            Tail(ids), m)

StageOf(coll) == CHOOSE s \in 1..Len(Stages) : Stages[s] = coll

\* The items of stage s that call p has written when it stopped at item i
\* of stage f: all of an earlier stage, i - 1 of stage f, none of a later.
Written(p, s, f, i) ==
    LET b == Batch(s, loc[p].marker, loc[p].now)
    IN  IF s < f THEN b ELSE IF s = f THEN SubSeq(b, 1, i - 1) ELSE <<>>

\* The store after one call that inserted its marker and stopped at item i
\* of stage f, the store having been in its initial state before it.
StoreIsPrefix(p, f, i) ==
    /\ markers = <<loc[p].marker>>
    /\ \A c \in OptionCollections :
         options[c] = ApplyUpserts(<<>>, Written(p, StageOf(c), f, i))
    /\ \A c \in RangeCollections : ranges[c] = Written(p, StageOf(c), f, i)
    /\ media = IF f < MediaStage THEN InitialMedia
               ELSE ApplyMediaUpdates(InitialMedia,
                                      SubSeq(loc[p].mediaIds, 1, i - 1),
                                      loc[p].marker)

StageErrors == {StageError(s) : s \in 1..Len(Stages)}

\* C2: when a stage after the marker insert fails, the call has stopped
\* there: the store holds the marker document and exactly the writes that
\* precede the failing operation, nothing of any later stage, and the
\* failing operation is the last one issued and was issued once.
C2_StageFailureStops ==
    \A p \in Procs :
        (Done(p) /\ added[p].err \in StageErrors) =>
            LET f == loc[p].s
                i == loc[p].i
                n == Len(trace[p])
            IN  /\ added[p].err = StageError(f)
                /\ StoreIsPrefix(p, f, i)
                /\ trace[p][n] = [coll |-> Stages[f], ok |-> FALSE]
                /\ \A k \in 1..(n - 1) : trace[p][k].ok
                /\ \A k \in 1..(n - 1) :
                      k > 1 => StageOf(trace[p][k].coll) <= f
                /\ ~ENABLED Step(p)

C2_Witness ==
    \E p \in Procs :
        /\ Done(p)
        /\ added[p].err = "failed to insert event ranges"
        /\ loc[p].i = 2
        /\ Len(ranges["marker_event_option_ranges"]) = 1
        /\ options["marker_category_options"] = <<>>
        /\ loc[p].marker.Categories # <<>>

\* The marker document the call inserted.
InsertedBy(p) ==
    {k \in 1..Len(markers) : markers[k].Id = loc[p].marker.Id}

\* C3, as claimed: a Create that fails after its marker was persisted
\* returns to its caller a marker that is not the zero value and carries
\* the identity of the persisted document.
C3_AsClaimed ==
    \A p \in Procs :
        (ViaCreate(p) /\ Persisted(p) /\ Failed(p)) =>
            /\ ret[p].marker # ZeroMarker
            /\ \E k \in 1..Len(markers) : markers[k].Id = ret[p].marker.Id

\* C3, amended: when a call fails after its marker was persisted,
\* AddMarkerToMongodb returns the error together with the marker that
\* carries the identity of the persisted document, but Create drops that
\* marker: its caller receives the same error and the zero-value marker.
C3_CreateDropsMarker ==
    \A p \in Procs :
        (Persisted(p) /\ Failed(p)) =>
            /\ added[p].err # "nil"
            /\ added[p].marker # ZeroMarker
            /\ added[p].marker.Id # NilObjectID
            /\ InsertedBy(p) # {}
            /\ added[p].marker.Id = loc[p].marker.Id
            /\ ret[p].err = added[p].err
            /\ ret[p].marker = IF ViaCreate(p) THEN ZeroMarker
                               ELSE added[p].marker

C3_Witness ==
    \E p \in Procs :
        /\ ViaCreate(p)
        /\ Persisted(p)
        /\ Failed(p)
        /\ ret[p].err = "failed to upsert tag options"
        /\ Len(markers) = 1

UniqueKeys(coll) ==
    \A i, j \in 1..Len(coll) :
        (coll[i].value = coll[j].value
            /\ coll[i].organisationId = coll[j].organisationId) => i = j

NoRepeats(seq) == \A i, j \in 1..Len(seq) : seq[i] = seq[j] => i = j

Elements(seq) == {seq[i] : i \in 1..Len(seq)}

\* The non-empty category names of the marker a call submitted.
SubmittedCategories(p) == Elements(call[p].marker.Categories) \ {""}

\* The call's marker-name upsert has been applied.
NameUpserted(p) == OkCount(p, "marker_options") = 1

SameLabel(p, e) ==
    /\ call[p].marker.Name = e.value
    /\ call[p].marker.OrganisationId = e.organisationId

\* C4: calls made one after the other from empty catalogs leave in each of
\* the four catalogs at most one entry per (value, organisation); a marker
\* name submitted for an organisation has exactly one entry, and its
\* category set is the union, without repeats, of the non-empty category
\* names of the submissions of that name whose upsert was applied.
C4_OneEntryPerLabel ==
    /\ \A c \in OptionCollections : UniqueKeys(options[c])
    /\ \A p \in Procs :
         NameUpserted(p) =>
            \E k \in 1..Len(options["marker_options"]) :
                SameLabel(p, options["marker_options"][k])
    /\ \A k \in 1..Len(options["marker_options"]) :
         LET e == options["marker_options"][k]
         IN  /\ NoRepeats(e.categories)
             /\ Elements(e.categories) =
                  UNION {SubmittedCategories(p) :
                           p \in {q \in Procs :
                                    NameUpserted(q) /\ SameLabel(q, e)}}

C4_Witness ==
    /\ Len(options["marker_options"]) = 1
    /\ \A p \in Procs :
         NameUpserted(p) /\ Done(p) /\ SameLabel(p, options["marker_options"][1])
    /\ SubmittedCategories(1) = {"c"}
    /\ SubmittedCategories(2) = {"c", "d"}
    /\ Len(options["marker_options"][1].categories) = 2

\* The labels whose upsert into a catalog the call has applied.
UpsertedLabels(p, c) ==
    LET n == OkCount(p, c)
    IN  IF n = 0 THEN {}
        ELSE LET b == Batch(StageOf(c), loc[p].marker, loc[p].now)
             IN  {b[k].value : k \in 1..n}

EntriesOf(c, label, org) ==
    {k \in 1..Len(options[c]) :
        options[c][k].value = label /\ options[c][k].organisationId = org}

ValidHex(h) == h # EmptyString /\ ~ObjectIDFromHex(h).err

InRange(doc, m) ==
    doc.startTimestamp <= m.StartTimestamp
        /\ m.StartTimestamp <= doc.endTimestamp

Occurrences(seq, x) == Cardinality({i \in 1..Len(seq) : seq[i] = x})

\* The media document carries every non-empty name of the submission once.
CarriesNames(doc, m) ==
    /\ m.Name # "" => Occurrences(doc.markerNames, m.Name) = 1
    /\ \A n \in Elements(m.Tags) \ {""} : Occurrences(doc.tagNames, n) = 1
    /\ \A n \in Elements(EventNames(m)) \ {""} :
          Occurrences(doc.eventNames, n) = 1

\* C6, as claimed: after a successful Create given media ids, every media
\* document named by one of them whose range contains the marker's start
\* carries each non-empty marker, tag and event name of the submission
\* exactly once.
C6_AsClaimed ==
    \A p \in Procs :
        (/\ ViaCreate(p)
         /\ Succeeded(p)
         /\ \A i \in 1..Len(call[p].mediaIds) : ValidHex(call[p].mediaIds[i]))
        => \A i \in 1..Len(call[p].mediaIds) : \A k \in 1..Len(media) :
             (/\ media[k].id = ObjectIDFromHex(call[p].mediaIds[i]).id
              /\ InRange(media[k], call[p].marker))
             => CarriesNames(media[k], call[p].marker)

\* A media id of the call selects the media document for the update.
Selected(p, k) ==
    \E i \in 1..Len(loc[p].mediaIds) :
        /\ ValidHex(loc[p].mediaIds[i])
        /\ InitialMedia[k].id = ObjectIDFromHex(loc[p].mediaIds[i]).id
        /\ InRange(InitialMedia[k], loc[p].marker)

AllOk(p) == \A k \in 1..Len(trace[p]) : trace[p][k].ok

\* C7: a media id whose document's range does not contain the marker's
\* start, or that matches no document, changes nothing: a media document
\* is unchanged unless a media id of the call names it and its range
\* contains the marker's start; and a call whose media ids all parse and
\* whose store operations all succeed returns without an error.
C7_NoMatchIsNoOp ==
    /\ Len(media) = Len(InitialMedia)
    /\ \A p \in Procs :
         /\ (pc[p] # "idle") =>
               \A k \in 1..Len(media) :
                  ~Selected(p, k) => media[k] = InitialMedia[k]
         /\ (/\ Done(p)
             /\ Persisted(p)
             /\ AllOk(p)
             /\ \A i \in 1..Len(loc[p].mediaIds) :
                   loc[p].mediaIds[i] = EmptyString
                      \/ ValidHex(loc[p].mediaIds[i]))
            => added[p].err = "nil"

C7_Witness ==
    \E p \in Procs :
        /\ Succeeded(p)
        /\ loc[p].marker.StartTimestamp = 1
        /\ loc[p].marker.Tags # <<>>
        /\ loc[p].mediaIds =
              <<EmptyString, MediaHexUnknown, MediaHex2, MediaHex1>>
        /\ OkCount(p, "media") = 3
        /\ media = InitialMedia

\* C8: a successful submission has appended one tag range record per tag
\* occurrence with a non-empty name and one event range record per event
\* occurrence with a non-empty name, repeats included, and one marker range
\* record, while it has issued one catalog upsert per distinct name.
C8_RangesNotDeduplicated ==
    \A p \in Procs :
        (Done(p) /\ added[p].err = "nil") =>
            LET m == call[p].marker
                tagRanges == ranges["marker_tag_option_ranges"]
                eventRanges == ranges["marker_event_option_ranges"]
                tagValues == [k \in 1..Len(tagRanges) |-> tagRanges[k].value]
                eventValues ==
                    [k \in 1..Len(eventRanges) |-> eventRanges[k].value]
            IN  /\ Len(tagRanges) =
                     Cardinality({i \in 1..Len(m.Tags) : m.Tags[i] # ""})
                /\ \A n \in Elements(m.Tags) \ {""} :
                      Occurrences(tagValues, n) = Occurrences(m.Tags, n)
                /\ Len(eventRanges) =
                     Cardinality({i \in 1..Len(m.Events) :
                                     m.Events[i].Name # ""})
                /\ \A n \in Elements(EventNames(m)) \ {""} :
                      Occurrences(eventValues, n)
                         = Occurrences(EventNames(m), n)
                /\ Len(ranges["marker_option_ranges"])
                     = IF m.Name # "" THEN 1 ELSE 0
                /\ ViaCreate(p) => Len(ranges["marker_option_ranges"]) = 1
                /\ OkCount(p, "marker_tag_options")
                     = Cardinality(Elements(m.Tags) \ {""})
                /\ OkCount(p, "marker_event_options")
                     = Cardinality(Elements(EventNames(m)) \ {""})

C8_Witness ==
    \E p \in Procs :
        /\ Succeeded(p)
        /\ ViaCreate(p)
        /\ call[p].marker.Tags = <<"t", "t">>
        /\ Len(call[p].marker.Events) = 3
        /\ Len(ranges["marker_tag_option_ranges"]) = 2
        /\ Len(options["marker_tag_options"]) = 1
        /\ Len(ranges["marker_event_option_ranges"]) = 2
        /\ Len(ranges["marker_option_ranges"]) = 1

\* C9: a Create of a marker with a non-empty name is not rejected whatever
\* its timestamps are; the document it persists and the marker it returns
\* on success have duration = endTimestamp - startTimestamp, a negative
\* difference included.
C9_DurationIsEndMinusStart ==
    \A p \in Procs :
        (ViaCreate(p) /\ call[p].marker.Name # "") =>
            LET d == call[p].marker.EndTimestamp
                        - call[p].marker.StartTimestamp
            IN  /\ ret[p].err # "marker name is required"
                /\ Persisted(p) =>
                      /\ InsertedBy(p) # {}
                      /\ \A k \in InsertedBy(p) : markers[k].Duration = d
                /\ (Done(p) /\ AllOk(p)) => Succeeded(p)
                /\ Succeeded(p) =>
                      /\ ret[p].marker.Duration = d
                      /\ \E k \in 1..Len(markers) : markers[k] = ret[p].marker

C9_Witness ==
    \E p \in Procs :
        /\ ViaCreate(p)
        /\ Succeeded(p)
        /\ call[p].marker.EndTimestamp < call[p].marker.StartTimestamp
        /\ ret[p].marker.Duration < 0
        /\ \E k \in 1..Len(markers) : markers[k].Duration < 0

\* C10: no two marker documents share an identity; the document a call
\* inserted carries an identity that is neither nil nor the one the caller
\* supplied in its marker; and the marker returned on success carries the
\* identity of the document that call inserted.
C10_FreshIdentity ==
    /\ \A i, j \in 1..Len(markers) : markers[i].Id = markers[j].Id => i = j
    /\ \A p \in Procs :
         Persisted(p) =>
            /\ \E k \in 1..Len(markers) :
                  /\ markers[k] = loc[p].marker
                  /\ markers[k].Id # call[p].marker.Id
                  /\ markers[k].Id # NilObjectID
                  /\ [markers[k] EXCEPT !.Id = call[p].marker.Id,
                                        !.Duration = call[p].marker.Duration]
                        = call[p].marker
            /\ Succeeded(p) => ret[p].marker.Id = loc[p].marker.Id

C10_Witness ==
    /\ Len(markers) = 2
    /\ Succeeded(1)
    /\ Succeeded(2)
    /\ call[2].marker.Id = ret[1].marker.Id
    /\ call[2].marker.Id # NilObjectID
    /\ ret[2].marker.Id # ret[1].marker.Id
    /\ Len(trace[1]) > 1
    /\ trace[2][1].coll = "markers"

\* The call's marker insert failed.
InsertFailed(p) == trace[p] # <<>> /\ ~trace[p][1].ok

\* C11: when the marker insert fails the call is over: the insert is the
\* only store operation it issued, no catalog, range or media write exists,
\* and both AddMarkerToMongodb and Create return the error with the
\* zero-value marker.
C11_InsertFailureAborts ==
    \A p \in Procs :
        InsertFailed(p) =>
            /\ Done(p)
            /\ Len(trace[p]) = 1
            /\ StoreIsInitial
            /\ added[p].err = "insert failed"
            /\ added[p].marker = ZeroMarker
            /\ ret[p].err = "insert failed"
            /\ ret[p].marker = ZeroMarker
            /\ ~ENABLED Step(p)

C11_Witness ==
    \E p \in Procs :
        /\ InsertFailed(p)
        /\ ~ViaCreate(p)
        /\ call[p].marker.Name # ""
        /\ call[p].marker.Tags # <<>>
        /\ call[p].marker.Categories # <<>>
        /\ call[p].mediaIds = <<MediaHex1>>
        /\ ~expired[p]

\* A media id that is not empty and is not the hex form of an ObjectID.
BadId(h) == h # EmptyString /\ ObjectIDFromHex(h).err

\* The media ids of an id list that are not empty.
NonEmptyIds(ids) == {i \in 1..Len(ids) : ids[i] # EmptyString}

\* The name lists of the submission are not all empty, so that a media
\* update is issued.
HasNames(m) ==
    \/ m.Name # ""
    \/ \E i \in 1..Len(m.Tags) : m.Tags[i] # ""
    \/ \E i \in 1..Len(m.Events) : m.Events[i].Name # ""

\* C12: the media ids are processed in list order; when the store
\* operations before it succeed, the first non-empty id that does not parse
\* makes the call return "invalid mediaId format": one media update was
\* issued for each non-empty id before it and none for an id after it, and
\* the marker, the catalog and range writes and those media updates are in
\* the store.
C12_BadMediaIdAborts ==
    \A p \in Procs :
        (/\ Done(p)
         /\ Persisted(p)
         /\ AllOk(p)
         /\ \E i \in 1..Len(loc[p].mediaIds) : BadId(loc[p].mediaIds[i]))
        => LET ids == loc[p].mediaIds
               b == CHOOSE i \in 1..Len(ids) :
                       /\ BadId(ids[i])
                       /\ \A j \in 1..(i - 1) : ~BadId(ids[j])
           IN  /\ added[p].err = "invalid mediaId format"
               /\ added[p].marker = loc[p].marker
               /\ loc[p].i = b
               /\ OkCount(p, "media") =
                    IF HasNames(loc[p].marker)
                    THEN Cardinality({j \in NonEmptyIds(ids) : j < b})
                    ELSE 0
               /\ StoreIsPrefix(p, MediaStage, b)
               /\ ~ENABLED Step(p)

C12_Witness ==
    \E p \in Procs :
        /\ Done(p)
        /\ added[p].err = "invalid mediaId format"
        /\ loc[p].mediaIds = <<MediaHex1, MediaHexBad, MediaHex2>>
        /\ OkCount(p, "media") = 1
        /\ Contains(media[1].tagNames, "t")
        /\ Len(markers) = 1
        /\ Len(options["marker_category_options"]) = 2

\* C13: media ids are optional.  A call whose media ids are none or all
\* empty issues no media update and leaves the media documents as they
\* were; an empty id is skipped and the ids after it are processed: when
\* no store operation fails and every non-empty id parses, the call
\* returns without an error, it has issued one update per non-empty id,
\* and every media document a non-empty id names whose range contains the
\* marker's start carries the names of the submission.
C13_MediaIdsOptional ==
    \A p \in Procs :
        /\ (pc[p] # "idle" /\ NonEmptyIds(loc[p].mediaIds) = {}) =>
              /\ \A k \in 1..Len(trace[p]) : trace[p][k].coll # "media"
              /\ media = InitialMedia
        /\ (/\ Done(p)
            /\ Persisted(p)
            /\ AllOk(p)
            /\ \A i \in 1..Len(loc[p].mediaIds) : ~BadId(loc[p].mediaIds[i]))
           => /\ added[p].err = "nil"
              /\ OkCount(p, "media") =
                   IF HasNames(loc[p].marker)
                   THEN Cardinality(NonEmptyIds(loc[p].mediaIds))
                   ELSE 0
              /\ \A k \in 1..Len(media) :
                    Selected(p, k) => CarriesNames(media[k], loc[p].marker)

C13_Witness ==
    \E p \in Procs :
        /\ Succeeded(p)
        /\ loc[p].mediaIds =
              <<EmptyString, MediaHexUnknown, MediaHex2, MediaHex1>>
        /\ loc[p].marker.StartTimestamp = 3
        /\ OkCount(p, "media") = 3
        /\ Contains(media[1].tagNames, "u")
        /\ Contains(media[1].eventNames, "e")

\* A call with only empty media ids has returned without an error.
C13_AllEmptyReached ==
    \E p \in Procs :
        /\ Succeeded(p)
        /\ ~ViaCreate(p)
        /\ loc[p].mediaIds = <<EmptyString, EmptyString>>
        /\ HasNames(loc[p].marker)

\* The documents of a collection that belong to other organisations.
OfOthers(coll, org) == SelectSeq(coll, LAMBDA d : d.organisationId # org)

\* The documents of the second collection that are new or differ from the
\* document at their place in the first all belong to the organisation.
WrittenFor(before, after, org) ==
    \A k \in 1..Len(after) :
        (k > Len(before) \/ after[k] # before[k]) =>
            after[k].organisationId = org

\* C14: a store operation of a call for organisation A leaves every
\* catalog entry and range record of another organisation as it was, in
\* place and content, and every entry or record it creates or changes
\* carries the organisation id A.
C14_OrganisationIsolation ==
    [][\A p \in Procs :
          trace'[p] # trace[p] =>
             LET org == call[p].marker.OrganisationId
             IN  /\ \A c \in OptionCollections :
                       /\ OfOthers(options'[c], org) = OfOthers(options[c], org)
                       /\ WrittenFor(options[c], options'[c], org)
                 /\ \A c \in RangeCollections :
                       /\ OfOthers(ranges'[c], org) = OfOthers(ranges[c], org)
                       /\ WrittenFor(ranges[c], ranges'[c], org)]_vars

C14_Witness ==
    /\ Succeeded(1)
    /\ Succeeded(2)
    /\ call[1].marker.OrganisationId = "A"
    /\ call[2].marker.OrganisationId = "B"
    /\ call[1].marker.Name = call[2].marker.Name
    /\ Len(options["marker_options"]) = 2
    /\ options["marker_options"][1].organisationId = "A"
    /\ options["marker_options"][1].updatedAt
          < options["marker_options"][2].createdAt
    /\ Len(options["marker_tag_options"]) = 4
    /\ \E k \in 1..Len(ranges["marker_tag_option_ranges"]) :
          ranges["marker_tag_option_ranges"][k].organisationId = "B"

\* A store operation of call p that takes effect.
Effective(p) ==
    \/ InsertOne(p)
    \/ BulkWrite(p)
    \/ InsertMany(p)
    \/ UpdateOne(p)

\* C15: once the deadline of a call has passed, the store stays as it is at
\* every step (no write takes effect, none is undone), the pending store
\* operation can only fail, and the call ends with an error caused by the
\* deadline, the store then holding exactly the writes made before it.
C15_DeadlineCoversCall ==
    /\ [](\A p \in Procs :
            /\ (expired[p] /\ ~Done(p)) =>
                  /\ ~ENABLED Effective(p)
                  /\ ENABLED (InsertOneFails(p) \/ StageFails(p))
            /\ (expired[p] /\ Done(p)) =>
                  /\ added[p].err # "nil"
                  /\ ret[p].err = added[p].err
                  /\ added[p].cause = "context deadline exceeded"
                  /\ trace[p][Len(trace[p])].ok = FALSE
                  /\ IF Persisted(p)
                     THEN StoreIsPrefix(p, loc[p].s, loc[p].i)
                     ELSE StoreIsInitial)
    /\ [][\A p \in Procs : expired[p] => store' = store]_vars

C15_Witness ==
    \E p \in Procs :
        /\ expired[p]
        /\ Done(p)
        /\ added[p].err = "failed to insert tag ranges"
        /\ added[p].cause = "context deadline exceeded"
        /\ loc[p].i = 2
        /\ Len(markers) = 1
        /\ Len(options["marker_tag_options"]) = 1
        /\ Len(ranges["marker_tag_option_ranges"]) = 1

\* The batch call p submits to a collection.
BatchOf(p, coll) == Batch(StageOf(coll), loc[p].marker, loc[p].now)

\* Call p has written its whole batch to the collection.
Completed(p, coll) == OkCount(p, coll) = Len(BatchOf(p, coll))

CatalogErrors == {StageError(StageOf(c)) : c \in OptionCollections}

\* C16, as claimed: a call has written a range record only when the four
\* catalog batches of its submission are complete, and a call that failed
\* in a catalog upsert has written no range record.
C16_AsClaimed ==
    \A p \in Procs :
        /\ (\E r \in RangeCollections : OkCount(p, r) > 0) =>
              \A c \in OptionCollections : Completed(p, c)
        /\ (Done(p) /\ added[p].err \in CatalogErrors) =>
              \A r \in RangeCollections : OkCount(p, r) = 0

\* The collections in the order the code writes them, kind by kind.
WriteOrder ==
    <<"markers", "marker_options", "marker_option_ranges",
      "marker_tag_options", "marker_tag_option_ranges",
      "marker_event_options", "marker_event_option_ranges",
      "marker_category_options", "media">>

Rank(coll) == CHOOSE k \in 1..Len(WriteOrder) : WriteOrder[k] = coll

\* C16, amended: within one call the stages run kind by kind: marker-name
\* catalog, marker-name ranges, tag catalog, tag ranges, event catalog,
\* event ranges, category catalog, then media linking. A stage is written
\* only when every earlier stage is complete, so the range records of a
\* kind follow the catalog upserts of that kind and of the kinds before
\* it (not those of the kinds after it), and a failing catalog upsert
\* leaves the range records of the earlier kinds in the store and none of
\* its own kind or of a later kind.
C16_StagesRunKindByKind ==
    \A p \in Procs :
        /\ \A k, l \in 1..Len(trace[p]) :
              k < l => Rank(trace[p][k].coll) <= Rank(trace[p][l].coll)
        /\ \A c \in OptionCollections \cup RangeCollections \cup {"media"} :
              (\E k \in 1..Len(trace[p]) : trace[p][k].coll = c) =>
                 \A d \in OptionCollections \cup RangeCollections :
                    Rank(d) < Rank(c) => Completed(p, d)
        /\ (Done(p) /\ added[p].err \in CatalogErrors) =>
              LET f == CHOOSE c \in OptionCollections :
                           StageError(StageOf(c)) = added[p].err
              IN  \A r \in RangeCollections :
                     IF Rank(r) < Rank(f)
                     THEN /\ Completed(p, r)
                          /\ Len(ranges[r]) = Len(BatchOf(p, r))
                     ELSE OkCount(p, r) = 0 /\ ranges[r] = <<>>

C16_Witness ==
    \E p \in Procs :
        /\ Done(p)
        /\ added[p].err = "failed to upsert tag options"
        /\ Len(ranges["marker_option_ranges"]) = 1
        /\ ranges["marker_tag_option_ranges"] = <<>>
        /\ loc[p].marker.Categories # <<>>
        /\ options["marker_category_options"] = <<>>

\* The number of store operations call p issued on a collection.
Issued(p, coll) ==
    Cardinality({k \in 1..Len(trace[p]) : trace[p][k].coll = coll})

\* The operations a call issues on a collection follow one another.
Contiguous(p) ==
    \A k, l \in 1..Len(trace[p]) :
        (k < l /\ trace[p][k].coll = trace[p][l].coll) =>
            trace[p][k + 1].coll = trace[p][k].coll

\* C17: a call operates on a catalog, range or media collection only after
\* the insert of its own marker document succeeded; it operates on a media
\* document only after every catalog upsert and every range insert of its
\* submission succeeded; and no stage is entered twice: the operations on a
\* collection are contiguous, at most one per item of the batch, and an
\* operation that failed is the last one of the call.
C17_LinearPipeline ==
    \A p \in Procs :
        LET n == Len(trace[p])
        IN  /\ n > 1 =>
                 /\ trace[p][1] = [coll |-> "markers", ok |-> TRUE]
                 /\ InsertedBy(p) # {}
            /\ Issued(p, "markers") <= 1
            /\ (Issued(p, "media") > 0 \/ media # InitialMedia) =>
                 \A c \in OptionCollections \cup RangeCollections :
                    /\ Completed(p, c)
                    /\ Issued(p, c) = Len(BatchOf(p, c))
            /\ \A c \in OptionCollections \cup RangeCollections :
                  Issued(p, c) <= Len(BatchOf(p, c))
            /\ Issued(p, "media") <= Cardinality(NonEmptyIds(loc[p].mediaIds))
            /\ Contiguous(p)
            /\ \A k \in 1..n : ~trace[p][k].ok => k = n /\ Done(p)

C17_Witness ==
    \E p \in Procs :
        /\ Succeeded(p)
        /\ \A c \in OptionCollections \cup RangeCollections :
              OkCount(p, c) > 0
        /\ OkCount(p, "media") > 1
        /\ media # InitialMedia

\* A range record carries the organisation, device and group of a marker.
CarriesOwner(doc, m) ==
    /\ doc.organisationId = m.OrganisationId
    /\ doc.deviceId = m.DeviceId
    /\ doc.groupId = m.GroupId

\* C18: the k-th event range record of a call carries the name, start and
\* end of the k-th event with a non-empty name of the submission, whatever
\* the marker's range is; every marker range record and every tag range
\* record carries the marker's start and end; and every range record
\* carries the marker's organisation, device and group ids.
C18_RangeTimestamps ==
    \A p \in Procs :
        Persisted(p) =>
            LET m == call[p].marker
                e == NonEmptyEvents(m.Events)
                er == ranges["marker_event_option_ranges"]
            IN  /\ Len(er) <= Len(e)
                /\ \A k \in 1..Len(er) :
                      /\ er[k].value = e[k].Name
                      /\ er[k].start = e[k].StartTimestamp
                      /\ er[k].end = e[k].EndTimestamp
                /\ \A c \in {"marker_option_ranges",
                             "marker_tag_option_ranges"} :
                      \A k \in 1..Len(ranges[c]) :
                         /\ ranges[c][k].start = m.StartTimestamp
                         /\ ranges[c][k].end = m.EndTimestamp
                /\ \A c \in RangeCollections :
                      \A k \in 1..Len(ranges[c]) :
                         CarriesOwner(ranges[c][k], m)

C18_Witness ==
    \E p \in Procs :
        LET er == ranges["marker_event_option_ranges"]
        IN  /\ Succeeded(p)
            /\ Len(er) = 2
            /\ er[1].value = er[2].value
            /\ er[1].start # er[2].start
            /\ er[1].start # call[p].marker.StartTimestamp
            /\ er[2].end # call[p].marker.EndTimestamp
            /\ Len(ranges["marker_option_ranges"]) = 1
            /\ Len(ranges["marker_tag_option_ranges"]) = 2
            /\ call[p].marker.OrganisationId = "B"

\* The kinds of label: the labels a submission has of the kind, and the
\* collections of the kind.
Kinds(m) ==
    { [labels |-> <<m.Name>>,
       colls |-> {"marker_options", "marker_option_ranges"}],
      [labels |-> m.Tags,
       colls |-> {"marker_tag_options", "marker_tag_option_ranges"}],
      [labels |-> EventNames(m),
       colls |-> {"marker_event_options", "marker_event_option_ranges"}],
      [labels |-> m.Categories,
       colls |-> {"marker_category_options"}] }

Collection(c) == IF c \in OptionCollections THEN options[c] ELSE ranges[c]

AllEmpty(labels) == \A i \in 1..Len(labels) : labels[i] = ""

\* The operations of a submission that has a name and no other label.
MinimalTrace ==
    <<[coll |-> "markers", ok |-> TRUE],
      [coll |-> "marker_options", ok |-> TRUE],
      [coll |-> "marker_option_ranges", ok |-> TRUE]>>

C19_NoLabelsReached ==
    \E p \in Procs :
        /\ Succeeded(p)
        /\ call[p].marker.Tags = <<>>
        /\ call[p].marker.Events = <<>>
        /\ call[p].marker.Categories = <<>>
        /\ loc[p].mediaIds = <<>>
        /\ trace[p] = MinimalTrace

\* An entry after a step compared with the entry before it: the fields
\* set at insertion are kept, updatedAt does not go back, and the category
\* set of a marker-name entry keeps its names.
Refreshed(c, before, after) ==
    /\ after.value = before.value
    /\ after.text = before.text
    /\ after.organisationId = before.organisationId
    /\ after.createdAt = before.createdAt
    /\ after.updatedAt >= before.updatedAt
    /\ IF c = "marker_options"
       THEN /\ Elements(before.categories) \subseteq Elements(after.categories)
            /\ [after EXCEPT !.updatedAt = before.updatedAt,
                             !.categories = before.categories] = before
       ELSE [after EXCEPT !.updatedAt = before.updatedAt] = before

\* C20: over any sequence of calls an option entry stays in its catalog at
\* its place, with the value, the text (equal to the value), the
\* organisation id and the created-at of its insertion; a later occurrence
\* of its label changes only updated-at, to the time of that call, and for
\* a marker-name entry adds category names to the set, removing none.
C20_CreatedOnceThenRefreshed ==
    /\ [](\A c \in OptionCollections :
            \A k \in 1..Len(options[c]) :
               /\ options[c][k].text = options[c][k].value
               /\ options[c][k].createdAt <= options[c][k].updatedAt)
    /\ [][\A c \in OptionCollections :
             /\ Len(options'[c]) >= Len(options[c])
             /\ \A k \in 1..Len(options[c]) :
                   /\ Refreshed(c, options[c][k], options'[c][k])
                   /\ options'[c][k] # options[c][k] =>
                         \E p \in Procs :
                            /\ trace'[p] # trace[p]
                            /\ options'[c][k].updatedAt = loc[p].now]_vars

C20_Witness ==
    /\ Succeeded(1)
    /\ Succeeded(2)
    /\ Len(options["marker_options"]) = 1
    /\ options["marker_options"][1].createdAt
          < options["marker_options"][1].updatedAt
    /\ options["marker_options"][1].categories = <<"c", "d">>
    /\ \E k \in 1..Len(options["marker_tag_options"]) :
          options["marker_tag_options"][k].createdAt
             < options["marker_tag_options"][k].updatedAt

\* The identity and range of a media document.
MediaKey(doc) ==
    [id |-> doc.id, startTimestamp |-> doc.startTimestamp,
     endTimestamp |-> doc.endTimestamp]

\* A media document after a step keeps every name it carried before.
NamesKept(before, after) ==
    /\ Elements(before.markerNames) \subseteq Elements(after.markerNames)
    /\ Elements(before.tagNames) \subseteq Elements(after.tagNames)
    /\ Elements(before.eventNames) \subseteq Elements(after.eventNames)

\* C21: over any sequence of calls the media collection holds the
\* documents it held at the start, with their ids and ranges, none created
\* and none deleted, and at every step each media document keeps every
\* marker name, tag name and event name it carried.
C21_MediaOnlyAddedTo ==
    /\ [](/\ Len(media) = Len(InitialMedia)
          /\ \A k \in 1..Len(media) :
                MediaKey(media[k]) = MediaKey(InitialMedia[k]))
    /\ [][/\ Len(media') = Len(media)
          /\ \A k \in 1..Len(media) :
                /\ MediaKey(media'[k]) = MediaKey(media[k])
                /\ NamesKept(media[k], media'[k])]_vars

C21_Witness ==
    /\ Succeeded(1)
    /\ Succeeded(2)
    /\ OkCount(1, "media") = 2
    /\ OkCount(2, "media") = 2
    /\ Len(media[1].tagNames) > 1
    /\ Len(media[1].eventNames) > 0
    /\ media[1].markerNames = <<"a">>
    /\ media[2] = InitialMedia[2]

\* A category entry has a marker-name entry of its organisation whose
\* category set contains its value.
Matched(entry) ==
    \E j \in 1..Len(options["marker_options"]) :
        /\ options["marker_options"][j].organisationId = entry.organisationId
        /\ Contains(options["marker_options"][j].categories, entry.value)

\* A call made to AddMarkerToMongodb directly, for a marker without a name.
DirectWithoutName(p) ==
    /\ pc[p] # "idle"
    /\ ~ViaCreate(p)
    /\ call[p].marker.Name = ""

\* C22, as claimed: in every reachable state each category entry is matched
\* by a marker-name entry of the same organisation whose category set
\* contains the category.
C22_AsClaimed ==
    \A k \in 1..Len(options["marker_category_options"]) :
        Matched(options["marker_category_options"][k])

\* C22, amended: each category entry is matched by a marker-name entry of
\* the same organisation whose category set contains the category, also
\* after failed calls, unless the category was submitted by a direct call
\* of AddMarkerToMongodb for a marker without a name, which upserts its
\* categories and no marker-name entry; so the invariant holds in every
\* state reached through Create calls alone.
C22_CategoriesHaveMarkerName ==
    /\ \A k \in 1..Len(options["marker_category_options"]) :
          LET entry == options["marker_category_options"][k]
          IN  \/ Matched(entry)
              \/ \E p \in Procs :
                    /\ DirectWithoutName(p)
                    /\ call[p].marker.OrganisationId = entry.organisationId
                    /\ entry.value \in SubmittedCategories(p)
    /\ (\A p \in Procs : ~DirectWithoutName(p)) => C22_AsClaimed

C22_Witness ==
    /\ ViaCreate(1)
    /\ ViaCreate(2)
    /\ Failed(1)
    /\ added[1].err = "failed to upsert category options"
    /\ Succeeded(2)
    /\ call[1].marker.OrganisationId # call[2].marker.OrganisationId
    /\ Len(options["marker_category_options"]) > 1
    /\ \E j \in 1..Len(options["marker_options"]) :
          \E c \in Elements(options["marker_options"][j].categories) :
             \A k \in 1..Len(options["marker_category_options"]) :
                options["marker_category_options"][k].value = c =>
                   options["marker_category_options"][k].organisationId
                      # options["marker_options"][j].organisationId

\* C23: AddMarkerToMongodb called directly for a marker without a name
\* does not reject it: the call goes to the marker insert, never reports
\* the missing name, issues no marker-name upsert and no marker range
\* insert, and once its insert succeeded the store holds the marker
\* document without a name and no marker-name entry or marker range
\* record; when no store operation fails and its media ids parse, it
\* returns that marker without an error.
C23_DirectCallSkipsNameCheck ==
    \A p \in Procs :
        DirectWithoutName(p) =>
            /\ ret[p].err # "marker name is required"
            /\ Done(p) => /\ trace[p] # <<>>
                          /\ trace[p][1].coll = "markers"
            /\ Issued(p, "marker_options") = 0
            /\ Issued(p, "marker_option_ranges") = 0
            /\ Persisted(p) =>
                  /\ Len(markers) = 1
                  /\ markers[1].Name = ""
                  /\ markers[1].Id # NilObjectID
                  /\ options["marker_options"] = <<>>
                  /\ ranges["marker_option_ranges"] = <<>>
            /\ (/\ Done(p)
                /\ AllOk(p)
                /\ \A i \in 1..Len(loc[p].mediaIds) :
                      ~BadId(loc[p].mediaIds[i]))
               => /\ ret[p].err = "nil"
                  /\ ret[p].marker = markers[1]

C23_Witness ==
    \E p \in Procs :
        /\ DirectWithoutName(p)
        /\ Succeeded(p)
        /\ AllOk(p)
        /\ Len(markers) = 1
        /\ markers[1].Name = ""
        /\ options["marker_options"] = <<>>
        /\ ranges["marker_option_ranges"] = <<>>
        /\ Len(options["marker_tag_options"]) = 2
        /\ Len(options["marker_category_options"]) = 2

\* The four kinds of label of a submission, with the catalog and the range
\* collection of each (the categories have no range collection).
LabelKinds(m) ==
    { [labels |-> <<m.Name>>, catalog |-> "marker_options",
       range |-> "marker_option_ranges"],
      [labels |-> m.Tags, catalog |-> "marker_tag_options",
       range |-> "marker_tag_option_ranges"],
      [labels |-> EventNames(m), catalog |-> "marker_event_options",
       range |-> "marker_event_option_ranges"],
      [labels |-> m.Categories, catalog |-> "marker_category_options",
       range |-> "none"] }

\* The distinct non-empty labels of a list, and their occurrences.
DistinctLabels(labels) == Elements(labels) \ {""}

LabelOccurrences(labels) == {i \in 1..Len(labels) : labels[i] # ""}

\* C24, as claimed: every Create call that has returned, none of whose
\* store operations failed and whose deadline did not pass, has ended in
\* success.
C24_AsClaimed ==
    \A p \in Procs :
        (ViaCreate(p) /\ Done(p) /\ AllOk(p) /\ ~expired[p]) =>
            ret[p].err = "nil"

\* The call issues at most one marker insert, one upsert per distinct
\* label of a kind, one range insert per occurrence of a label and one
\* update per media id.
BoundedOperations(p) ==
    LET m == call[p].marker
    IN  /\ Issued(p, "markers") <= 1
        /\ \A kind \in LabelKinds(m) :
              /\ Issued(p, kind.catalog)
                    <= Cardinality(DistinctLabels(kind.labels))
              /\ kind.range # "none" =>
                    Issued(p, kind.range)
                       <= Cardinality(LabelOccurrences(kind.labels))
        /\ Issued(p, "media") <= Len(call[p].mediaIds)
        /\ \A k \in 1..Len(trace[p]) : ~trace[p][k].ok => k = Len(trace[p])

\* The store holds the marker of the call, an entry for every distinct
\* label of each kind and a range record for every occurrence.
AllWritten(p) ==
    LET m == call[p].marker
    IN  /\ InsertedBy(p) # {}
        /\ ret[p].marker.Id = loc[p].marker.Id
        /\ \A kind \in LabelKinds(m) :
              /\ \A n \in DistinctLabels(kind.labels) :
                    \E k \in 1..Len(options[kind.catalog]) :
                       /\ options[kind.catalog][k].value = n
                       /\ options[kind.catalog][k].organisationId
                             = m.OrganisationId
              /\ OkCount(p, kind.catalog)
                    = Cardinality(DistinctLabels(kind.labels))
              /\ kind.range # "none" =>
                    /\ OkCount(p, kind.range)
                          = Cardinality(LabelOccurrences(kind.labels))
                    /\ \A n \in DistinctLabels(kind.labels) :
                          Cardinality({k \in 1..Len(ranges[kind.range]) :
                                          ranges[kind.range][k].value = n})
                             >= Cardinality({i \in 1..Len(kind.labels) :
                                                kind.labels[i] = n})

\* C24, amended: every call returns, after a bounded number of store
\* operations (at most one marker insert, one upsert per distinct label of
\* each of the four kinds, one range insert per label occurrence of each of
\* the three kinds and one update per media id), whatever operations
\* fail; a Create call for a marker without a name ends with an error
\* although no store operation fails; and a Create call for a marker with
\* a name, none of whose store operations fails, ends in success with the
\* marker persisted, a catalog entry present for every distinct non-empty
\* label of each kind and a range record appended for every occurrence.
C24_TerminatesBounded ==
    /\ [](\A p \in Procs :
            /\ BoundedOperations(p)
            /\ (ViaCreate(p) /\ Done(p) /\ call[p].marker.Name = "") =>
                  ret[p].err # "nil" /\ trace[p] = <<>>
            /\ (/\ ViaCreate(p)
                /\ Done(p)
                /\ call[p].marker.Name # ""
                /\ AllOk(p))
               => ret[p].err = "nil" /\ AllWritten(p))
    /\ \A p \in Procs : (pc[p] # "idle") ~> Done(p)

C24_Witness ==
    \E p \in Procs :
        /\ ViaCreate(p)
        /\ Succeeded(p)
        /\ call[p].marker.Tags = <<"", "u", "t">>
        /\ call[p].marker.Categories = <<"d", "", "c", "d">>
        /\ Len(call[p].marker.Events) = 3
        /\ Len(trace[p]) = 12
        /\ Len(ranges["marker_event_option_ranges"]) = 2
        /\ Len(options["marker_event_options"]) = 1

====
